---- MODULE Spec2Model ----
(***************************************************************************)
(* Model of the Nuke start-up hook src/__init__.py: the module body run    *)
(* statement by statement against a file system and the host scripting    *)
(* API.  Strings are sequences of characters (file names) or of tokens     *)
(* (paths); every external call is appended to the trace `calls`.          *)
(***************************************************************************)
EXTENDS Integers, Sequences, FiniteSets, TLC

\* ---------------------------------------------------------------- bounds
MaxNameLen == 2
MaxEntries == 2

\* ------------------------------------------------------------ environment
Alphabet == {"a", "."}
\* <<NUKE_VERSION_MAJOR, NUKE_VERSION_MINOR>> of the hosts considered
Versions == {<<9, 5>>, <<13, 0>>}
Kinds == {"file", "dir"}

ScriptFile == <<"dir", "/", "__init__.py">>

foo_py == <<"f", "o", "o", ".", "p", "y">>
foo_bar_py == <<"f", "o", "o", ".", "b", "a", "r", ".", "p", "y">>
foo_so == <<"f", "o", "o", ".", "s", "o">>
foo == <<"f", "o", "o">>
DS_Store == <<".", "D", "S", "_", "S", "t", "o", "r", "e">>

ExampleNames == {foo_py, foo_bar_py, foo_so, foo, DS_Store}

\* os.listdir never reports "." and ".."
BoundedNames ==
  UNION {[1..n -> Alphabet] : n \in 1..MaxNameLen} \ {<<".">>, <<".", ".">>}

Names == BoundedNames \cup ExampleNames

Entries == [name : Names, kind : Kinds]

\* a directory holds entries with pairwise distinct names, in listing order
Listings ==
  {s \in UNION {[1..n -> Entries] : n \in 0..MaxEntries} :
     \A i, j \in 1..Len(s) : i # j => s[i].name # s[j].name}

\* the name the installer gives the build's sub-directory for a host version
NukeDirs ==
  [v \in Versions |->
     IF v = <<9, 5>> THEN <<"Nuke", "9", ".", "5">>
     ELSE <<"Nuke", "1", "3", ".", "0">>]

NukeDirNames == {NukeDirs[v] : v \in Versions}

\* file systems seen by a host of version v: no build directory, an empty
\* one, or one version directory; the directory of another version is never
\* read, and is left empty
FileSystems(v) ==
  {[build |-> FALSE, sub |-> <<>>], [build |-> TRUE, sub |-> <<>>]}
  \cup {[build |-> TRUE, sub |-> (NukeDirs[v] :> l)] : l \in Listings}
  \cup {[build |-> TRUE, sub |-> (d :> <<>>)] : d \in NukeDirNames \ {NukeDirs[v]}}

\* ---------------------------------------------------------- pure functions
\* str.split(sep): the parts between the separators, empty parts included
RECURSIVE SplitFrom(_, _, _, _, _)
SplitFrom(s, sep, i, cur, acc) ==
  IF i > Len(s) THEN Append(acc, cur)
  ELSE IF s[i] = sep THEN SplitFrom(s, sep, i + 1, <<>>, Append(acc, cur))
  ELSE SplitFrom(s, sep, i + 1, Append(cur, s[i]), acc)

Split(s, sep) == SplitFrom(s, sep, 1, <<>>, <<>>)

\* a slip: the extension alone is removed (everything from the last period)
ShortName_lastDot(p) ==
  LET dots == {i \in 1..Len(p) : p[i] = "."}
  IN IF dots = {} THEN p
     ELSE SubSeq(p, 1, (CHOOSE i \in dots : \A j \in dots : j <= i) - 1)

\* p.split('.')[0]
ShortName(p) == Split(p, ".")[1]

Digit == <<"0", "1", "2", "3", "4", "5", "6", "7", "8", "9">>

\* '{}'.format(n) for a non-negative integer
RECURSIVE IntToStr(_)
IntToStr(n) ==
  IF n < 10 THEN <<Digit[n + 1]>>
  ELSE IntToStr(n \div 10) \o <<Digit[(n % 10) + 1]>>

\* os.path.dirname: everything before the last separator
Dirname(path) ==
  LET seps == {i \in 1..Len(path) : path[i] = "/"}
  IN IF seps = {} THEN <<>>
     ELSE SubSeq(path, 1, (CHOOSE i \in seps : \A j \in seps : j <= i) - 1)

\* os.path.join of a non-empty directory and a relative component
Join(a, b) == a \o <<"/", b>>

\* a slip: the build directory itself is used
PluginsPath_bare(b, ma, mi) == b

\* '{}/Nuke{}.{}'.format(build, major, minor)
PluginsPath(b, ma, mi) ==
  b \o <<"/", "Nuke">> \o IntToStr(ma) \o <<".">> \o IntToStr(mi)

\* os.path.isdir: the script directory exists, build and its sub-directory
\* exist as the file system says
Isdir(f, path) ==
  LET c == Split(path, "/")
  IN /\ Len(c) \in 1..3
     /\ c[1] = Dirname(ScriptFile)
     /\ Len(c) >= 2 => (c[2] = <<"build">> /\ f.build)
     /\ Len(c) = 3 => c[3] \in DOMAIN f.sub

\* os.listdir of an existing directory: the names of its entries
Listdir(f, path) ==
  LET c == Split(path, "/")
  IN IF Len(c) = 3 THEN [i \in 1..Len(f.sub[c[3]]) |-> f.sub[c[3]][i].name]
     ELSE IF DOMAIN f.sub = {} THEN <<>>
     ELSE <<CHOOSE d \in DOMAIN f.sub : TRUE>>

Call(op, on, arg, ok) == [op |-> op, on |-> on, arg |-> arg, ok |-> ok]

\* ------------------------------------------------------------------ state
VARIABLES
  fs,       \* the file system below the script's directory
  major,    \* nuke.NUKE_VERSION_MAJOR
  minor,    \* nuke.NUKE_VERSION_MINOR
  pc,       \* the statement to run next, or "done" / "error"
  build,    \* line 4
  plugins,  \* line 5
  menu,     \* line 10: the handle of the menu addMenu returned
  items,    \* the list os.listdir returned
  idx,      \* how many elements the for loop has taken
  p,        \* the loop variable
  name,     \* line 13
  calls     \* every call into os and into the host, in order

vars == <<fs, major, minor, pc, build, plugins, menu, items, idx, p, name, calls>>

env == <<fs, major, minor>>

Init ==
  /\ \E v \in Versions :
       /\ major = v[1]
       /\ minor = v[2]
       /\ fs \in FileSystems(v)
  /\ pc = "build"
  /\ build = <<>>
  /\ plugins = <<>>
  /\ menu = <<>>
  /\ items = <<>>
  /\ idx = 0
  /\ p = <<>>
  /\ name = <<>>
  /\ calls = <<>>

\* line 4
SetBuild ==
  /\ pc = "build"
  /\ build' = Join(Dirname(ScriptFile), "build")
  /\ pc' = "plugins"
  /\ UNCHANGED <<env, plugins, menu, items, idx, p, name, calls>>

\* lines 5-6
SetPlugins ==
  /\ pc = "plugins"
  /\ plugins' = PluginsPath(build, major, minor)
  /\ pc' = "isdir"
  /\ UNCHANGED <<env, build, menu, items, idx, p, name, calls>>

\* a slip: the variant of the script without the check
CheckDir_noCheck ==
  /\ pc = "isdir"
  /\ calls' = calls
  /\ pc' = "addpath"
  /\ UNCHANGED <<env, build, plugins, menu, items, idx, p, name>>

\* line 8
CheckDir ==
  /\ pc = "isdir"
  /\ calls' = Append(calls, Call("isdir", <<"os">>, plugins, TRUE))
  /\ pc' = IF Isdir(fs, plugins) THEN "addpath" ELSE "done"
  /\ UNCHANGED <<env, build, plugins, menu, items, idx, p, name>>

\* line 9
AddPath ==
  /\ pc = "addpath"
  /\ \E ok \in BOOLEAN :
       /\ calls' = Append(calls, Call("pluginAddPath", <<"nuke">>, plugins, ok))
       /\ pc' = IF ok THEN "menu" ELSE "error"
  /\ UNCHANGED <<env, build, plugins, menu, items, idx, p, name>>

\* line 10, nuke.menu('Nodes')
GetMenu ==
  /\ pc = "menu"
  /\ \E ok \in BOOLEAN :
       /\ calls' = Append(calls, Call("menu", <<"nuke">>, <<"Nodes">>, ok))
       /\ pc' = IF ok THEN "addmenu" ELSE "error"
  /\ UNCHANGED <<env, build, plugins, menu, items, idx, p, name>>

\* line 10, .addMenu('Examples') and the assignment
AddMenu ==
  /\ pc = "addmenu"
  /\ \E ok \in BOOLEAN :
       /\ calls' = Append(calls, Call("addMenu", <<"Nodes">>, <<"Examples">>, ok))
       /\ menu' = IF ok THEN <<"Nodes", "Examples">> ELSE menu
       /\ pc' = IF ok THEN "listdir" ELSE "error"
  /\ UNCHANGED <<env, build, plugins, items, idx, p, name>>

\* line 12, os.listdir(plugins): raises on a missing directory
ListPlugins ==
  /\ pc = "listdir"
  /\ \E ok \in (IF Isdir(fs, plugins) THEN BOOLEAN ELSE {FALSE}) :
       /\ calls' = Append(calls, Call("listdir", <<"os">>, plugins, ok))
       /\ items' = IF ok THEN Listdir(fs, plugins) ELSE items
       /\ pc' = IF ok THEN "for" ELSE "error"
  /\ UNCHANGED <<env, build, plugins, menu, idx, p, name>>

\* a slip: one pass too many, taking the first element again
For_extraPass ==
  /\ pc = "for"
  /\ IF idx <= Len(items) /\ Len(items) > 0
       THEN /\ p' = items[(idx % Len(items)) + 1]
            /\ idx' = idx + 1
            /\ pc' = "split"
       ELSE /\ pc' = "done"
            /\ UNCHANGED <<p, idx>>
  /\ UNCHANGED <<env, build, plugins, menu, items, name, calls>>

\* a slip: entries whose short name was seen before are skipped
For_dedup ==
  /\ pc = "for"
  /\ IF idx < Len(items)
       THEN /\ idx' = idx + 1
            /\ IF \E k \in 1..idx : ShortName(items[k]) = ShortName(items[idx + 1])
                 THEN UNCHANGED <<p, pc>>
                 ELSE p' = items[idx + 1] /\ pc' = "split"
       ELSE /\ pc' = "done"
            /\ UNCHANGED <<p, idx>>
  /\ UNCHANGED <<env, build, plugins, menu, items, name, calls>>

\* a slip: hidden entries and sub-directories are skipped
For_filter ==
  /\ pc = "for"
  /\ IF idx < Len(items)
       THEN /\ idx' = idx + 1
            /\ IF items[idx + 1][1] = "."
                  \/ fs.sub[NukeDirs[<<major, minor>>]][idx + 1].kind = "dir"
                 THEN UNCHANGED <<p, pc>>
                 ELSE p' = items[idx + 1] /\ pc' = "split"
       ELSE /\ pc' = "done"
            /\ UNCHANGED <<p, idx>>
  /\ UNCHANGED <<env, build, plugins, menu, items, name, calls>>

\* line 12, the for statement: the next element, or the end of the script
For ==
  /\ pc = "for"
  /\ IF idx < Len(items)
       THEN /\ p' = items[idx + 1]
            /\ idx' = idx + 1
            /\ pc' = "split"
       ELSE /\ pc' = "done"
            /\ UNCHANGED <<p, idx>>
  /\ UNCHANGED <<env, build, plugins, menu, items, name, calls>>

\* a slip: the load statement is left out
SplitName_skipLoad ==
  /\ pc = "split"
  /\ name' = ShortName(p)
  /\ pc' = "addcmd"
  /\ UNCHANGED <<env, build, plugins, menu, items, idx, p, calls>>

\* line 13
SplitName ==
  /\ pc = "split"
  /\ name' = ShortName(p)
  /\ pc' = "load"
  /\ UNCHANGED <<env, build, plugins, menu, items, idx, p, calls>>

\* a slip: a failed load is swallowed and the loop goes on
Load_swallow ==
  /\ pc = "load"
  /\ \E ok \in BOOLEAN :
       /\ calls' = Append(calls, Call("load", <<"nuke">>, name, ok))
       /\ pc' = IF ok THEN "addcmd" ELSE "for"
  /\ UNCHANGED <<env, build, plugins, menu, items, idx, p, name>>

\* line 14
Load ==
  /\ pc = "load"
  /\ \E ok \in BOOLEAN :
       /\ calls' = Append(calls, Call("load", <<"nuke">>, name, ok))
       /\ pc' = IF ok THEN "addcmd" ELSE "error"
  /\ UNCHANGED <<env, build, plugins, menu, items, idx, p, name>>

\* a slip: the file name is used for the menu entry
AddCommand_fileName ==
  /\ pc = "addcmd"
  /\ \E ok \in BOOLEAN :
       /\ calls' = Append(calls, Call("addCommand", menu, p, ok))
       /\ pc' = IF ok THEN "for" ELSE "error"
  /\ UNCHANGED <<env, build, plugins, menu, items, idx, p, name>>

\* line 15
AddCommand ==
  /\ pc = "addcmd"
  /\ \E ok \in BOOLEAN :
       /\ calls' = Append(calls, Call("addCommand", menu, name, ok))
       /\ pc' = IF ok THEN "for" ELSE "error"
  /\ UNCHANGED <<env, build, plugins, menu, items, idx, p, name>>

Next ==
  \/ SetBuild
  \/ SetPlugins
  \/ CheckDir
  \/ AddPath
  \/ GetMenu
  \/ AddMenu
  \/ ListPlugins
  \/ For
  \/ SplitName
  \/ Load
  \/ AddCommand

Spec == Init /\ [][Next]_vars

\* the interpreter runs the module body to its end
FairSpec == Spec /\ WF_vars(Next)

\* ------------------------------------------------------------ vocabulary
Terminal == pc \in {"done", "error"}

CallsOf(op) == SelectSeq(calls, LAMBDA c : c.op = op)

Args(s) == [i \in 1..Len(s) |-> s[i].arg]

Last == calls[Len(calls)]

\* the directory of the host's version, as the installer names it
VersionDir == NukeDirs[<<major, minor>>]

VersionDirExists == fs.build /\ VersionDir \in DOMAIN fs.sub

\* the entries of the version directory
Listing == IF VersionDirExists THEN fs.sub[VersionDir] ELSE <<>>

\* the substring before the first period, the whole name without a period
BeforeFirstDot(q) ==
  IF \A i \in 1..Len(q) : q[i] # "." THEN q
  ELSE LET k == CHOOSE i \in 1..Len(q) :
                  q[i] = "." /\ \A j \in 1..(i - 1) : q[j] # "."
       IN [i \in 1..(k - 1) |-> q[i]]

ShortNames == [i \in 1..Len(Listing) |-> BeforeFirstDot(Listing[i].name)]

\* ----------------------------------------------------------------- claims

\* C1: the short name computed for an entry p, and passed to load and to
\* addCommand, is the part of p before its first period, p itself when p has
\* no period; "foo.py" and "foo.bar.py" both give "foo".
C1_ShortNameBeforeFirstPeriod ==
  /\ pc \in {"load", "addcmd"} => name = BeforeFirstDot(p)
  /\ pc = "addcmd" => Last.op = "load" /\ Last.arg = BeforeFirstDot(p)
  /\ (pc = "for" /\ idx > 0) =>
       Last.op = "addCommand" /\ Last.arg = BeforeFirstDot(p)
  /\ (pc \in {"load", "addcmd"} /\ p \in {foo_py, foo_bar_py}) => name = foo

C1_Witness ==
  /\ pc = "for"
  /\ p = foo_bar_py
  /\ Last.op = "addCommand"
  /\ Last.arg = foo

\* C2: without the version directory nothing but the existence check is
\* called: no pluginAddPath, menu, addMenu, listdir, load or addCommand.
C2_NoCallWithoutDirectory ==
  ~VersionDirExists =>
    /\ \A k \in 1..Len(calls) : calls[k].op = "isdir"
    /\ pc \in {"build", "plugins", "isdir", "done"}

C2_Witness ==
  /\ fs.build
  /\ DOMAIN fs.sub # {}
  /\ ~VersionDirExists
  /\ pc = "done"
  /\ Len(calls) = 1

\* C3: one linear sequence: every load comes after a successful pluginAddPath
\* and a successful addMenu('Examples'), the n-th load is for the n-th entry,
\* the call after a load is the addCommand of the same name, and every
\* addCommand directly follows the successful load of its name.
C3_LinearOrder ==
  \A k \in 1..Len(calls) :
    /\ calls[k].op = "load" =>
         /\ \E i, j \in 1..(k - 1) :
              /\ i < j
              /\ calls[i] = Call("pluginAddPath", <<"nuke">>, plugins, TRUE)
              /\ calls[j] = Call("addMenu", <<"Nodes">>, <<"Examples">>, TRUE)
         /\ k < Len(calls) =>
              calls[k + 1].op = "addCommand" /\ calls[k + 1].arg = calls[k].arg
         /\ LET n == Len(SelectSeq(SubSeq(calls, 1, k), LAMBDA c : c.op = "load"))
            IN n <= Len(items) /\ calls[k].arg = BeforeFirstDot(items[n])
    /\ calls[k].op = "addCommand" =>
         /\ k > 1
         /\ calls[k - 1].op = "load"
         /\ calls[k - 1].ok
         /\ calls[k - 1].arg = calls[k].arg

C3_Witness ==
  /\ Len(CallsOf("load")) = 2
  /\ Len(CallsOf("addCommand")) = 2
  /\ pc = "done"

\* C4: after a run that reached its end with the directory present, the names
\* passed to load are the short names of the listing, in listing order, one
\* per entry, and the names added to the Examples submenu of Nodes are the same.
C4_LoadsAndCommandsFollowListing ==
  (pc = "done" /\ VersionDirExists) =>
    /\ Args(CallsOf("load")) = ShortNames
    /\ Args(CallsOf("addCommand")) = ShortNames
    /\ \A k \in 1..Len(calls) :
         calls[k].op = "addCommand" => calls[k].on = <<"Nodes", "Examples">>
    /\ Args(CallsOf("menu")) = <<<<"Nodes">>>>
    /\ Args(CallsOf("addMenu")) = <<<<"Examples">>>>

C4_Witness ==
  /\ pc = "done"
  /\ Len(Listing) = 2
  /\ Listing[1].name = foo_bar_py
  /\ Listing[2].name = <<"a">>
  /\ Args(CallsOf("addCommand")) = <<foo, <<"a">>>>

\* C5: a failed load is the last call of the run: the run is in the error
\* state, no command is added for that entry, no later entry is loaded, and
\* the path registration and the commands of the earlier entries stand.
C5_FailedLoadPropagates ==
  \A k \in 1..Len(calls) :
    (calls[k].op = "load" /\ ~calls[k].ok) =>
      /\ k = Len(calls)
      /\ pc = "error"
      /\ Len(CallsOf("load")) = idx
      /\ Len(CallsOf("addCommand")) = idx - 1
      /\ Args(CallsOf("addCommand")) = SubSeq(ShortNames, 1, idx - 1)
      /\ \A c \in 1..(k - 1) : calls[c].ok
      /\ \E c \in 1..(k - 1) : calls[c].op = "pluginAddPath"

C5_Witness ==
  /\ pc = "error"
  /\ Last.op = "load"
  /\ idx = 2
  /\ Len(CallsOf("addCommand")) = 1

\* C6 as stated: a missing plugin directory ends the run in an error raised
\* by a host or listing call.
C6_MissingDirectoryFails ==
  (Terminal /\ ~VersionDirExists) => (pc = "error" /\ ~Last.ok)

\* C6 amended: a missing plugin directory is no failure: no call raises and
\* the run ends normally.
C6_MissingDirectoryEndsNormally ==
  ~VersionDirExists =>
    /\ pc # "error"
    /\ \A k \in 1..Len(calls) : calls[k].ok

C6_Witness ==
  /\ ~fs.build
  /\ pc = "done"
  /\ Last.op = "isdir"

\* C7: the path checked, registered and listed is <script dir>/build/Nuke
\* <major>.<minor>; the build directory itself is never registered or listed.
C7_VersionDirectoryOnly ==
  \A k \in 1..Len(calls) :
    calls[k].op \in {"isdir", "pluginAddPath", "listdir"} =>
      /\ calls[k].arg = <<"dir", "/", "build", "/">> \o VersionDir
      /\ calls[k].arg # <<"dir", "/", "build">>

C7_Witness ==
  /\ major = 13
  /\ minor = 0
  /\ Len(CallsOf("pluginAddPath")) = 1
  /\ Len(CallsOf("listdir")) = 1
  /\ Last.op = "listdir"
  /\ Last.ok

\* C8: the run always reaches done or error; pluginAddPath and addMenu are
\* called at most once, load and addCommand at most once per entry; with an
\* empty directory a finished run has registered the path once, made the
\* Examples menu once and loaded nothing.
C8_CallBounds ==
  /\ Len(CallsOf("pluginAddPath")) <= 1
  /\ Len(CallsOf("addMenu")) <= 1
  /\ Len(CallsOf("load")) <= Len(Listing)
  /\ Len(CallsOf("addCommand")) <= Len(Listing)
  /\ (pc = "done" /\ VersionDirExists /\ Len(Listing) = 0) =>
       /\ Len(CallsOf("pluginAddPath")) = 1
       /\ Len(CallsOf("addMenu")) = 1
       /\ Len(CallsOf("load")) = 0

C8_RunOnceAndTerminates == <>Terminal /\ []C8_CallBounds

C8_Witness ==
  /\ pc = "done"
  /\ VersionDirExists
  /\ Len(Listing) = 0
  /\ Len(CallsOf("addMenu")) = 1

\* C9: no de-duplication: after a finished run every short name has been
\* loaded and added as often as there are entries with that short name, so
\* there are as many commands as entries.
C9_NoDeduplication ==
  (pc = "done" /\ VersionDirExists) =>
    /\ Len(CallsOf("addCommand")) = Len(Listing)
    /\ \A i \in 1..Len(Listing) :
         LET same == {j \in 1..Len(Listing) : ShortNames[j] = ShortNames[i]}
         IN /\ Len(SelectSeq(calls, LAMBDA c :
                     c.op = "load" /\ c.arg = ShortNames[i])) = Cardinality(same)
            /\ Len(SelectSeq(calls, LAMBDA c :
                     c.op = "addCommand" /\ c.arg = ShortNames[i])) = Cardinality(same)

C9_Witness ==
  /\ pc = "done"
  /\ Len(Listing) = 2
  /\ {Listing[1].name, Listing[2].name} \in {{foo_so, foo_py}, {foo_py, foo_bar_py}}
  /\ Args(CallsOf("load")) = <<foo, foo>>
  /\ Args(CallsOf("addCommand")) = <<foo, foo>>

\* C10: no filtering: once the loop has passed an entry, it has been loaded,
\* whatever its kind; a name that begins with a period is loaded and added as
\* the empty name, a name without a period under the full name.
C10_NoFiltering ==
  \A i \in 1..Len(Listing) :
    (i < idx \/ (i = idx /\ pc \in {"addcmd", "for", "done"})) =>
      /\ Len(CallsOf("load")) >= i
      /\ Listing[i].name[1] = "." => CallsOf("load")[i].arg = <<>>
      /\ (\A c \in 1..Len(Listing[i].name) : Listing[i].name[c] # ".") =>
           CallsOf("load")[i].arg = Listing[i].name
      /\ (i < idx \/ pc \in {"for", "done"}) =>
           /\ Len(CallsOf("addCommand")) >= i
           /\ CallsOf("addCommand")[i].arg = CallsOf("load")[i].arg

C10_Witness ==
  /\ pc = "done"
  /\ Len(Listing) = 2
  /\ Listing[1] = [name |-> DS_Store, kind |-> "file"]
  /\ Listing[2] = [name |-> foo, kind |-> "dir"]
  /\ Args(CallsOf("load")) = <<<<>>, foo>>
  /\ Args(CallsOf("addCommand")) = <<<<>>, foo>>

====
